---- MODULE Spec2Model ----
(***************************************************************************)
(* Flow-App: the daily scheduling engine (generateDailySchedule,           *)
(* resolveBlockDuration) and the challenge-skill calibration engine        *)
(* (computeCalibrationProfile), from src/src/lib/scheduling/engine.ts.     *)
(*                                                                         *)
(* Number representation.  The engine computes in IEEE doubles; the model  *)
(* uses integers in fixed units:                                           *)
(*   skillLevel, idealDifficulty, avgHoursPerDay, energy : tenths          *)
(*   confidence                                          : hundredths      *)
(*   task scores                                         : 1e-8            *)
(*   clock times                                         : minutes         *)
(* null of a nullable number that the code only reads through truthiness   *)
(* (hoursRequested, energyRating) is 0; an optional object (calibration)   *)
(* is a sequence of length 0 or 1.                                         *)
(***************************************************************************)
EXTENDS Integers, Sequences, FiniteSets, TLC

VARIABLES
    pendingTasks,       \* the caller's Task[] handed to the engine
    blockDurationMode,  \* project setting: "60" | "90" | "120" | "custom" | "auto" | other
    customDuration,     \* project setting: custom block length
    config,             \* ScheduleConfig of the current call
    pc,                 \* position of the planning request
    i,                  \* loop index of generateDailySchedule
    remainingTasks,     \* scored tasks not yet placed
    currentTime,        \* running cursor, minutes since midnight (not wrapped)
    blocks,             \* blocks emitted so far / the returned list
    feedbackEntries,    \* the caller's FeedbackWithDifficulty[]
    dailyPlanData,      \* the caller's DailyPlanSummary[]
    profile,            \* result of computeCalibrationProfile (length 0 before the call)
    call,               \* a single function under evaluation: its name and arguments
    result              \* the values that evaluation has returned so far

vars == << pendingTasks, blockDurationMode, customDuration, config, pc, i,
           remainingTasks, currentTime, blocks, feedbackEntries, dailyPlanData,
           profile, call, result >>

schedVars == << pendingTasks, blockDurationMode, customDuration, config, i,
                remainingTasks, currentTime, blocks >>

calVars == << feedbackEntries, dailyPlanData, profile >>

fnVars == << call, result >>

----------------------------------------------------------------------------
(* Bounds of the model *)

MaxTasks == 3
MaxFeedback == 3
MaxSummaries == 2
MaxMinutes == 2000
MaxEntries == 35
MaxStreakDays == 3

----------------------------------------------------------------------------
(* Generic helpers *)

Abs(x) == IF x < 0 THEN -x ELSE x

Max(a, b) == IF a >= b THEN a ELSE b

Min(a, b) == IF a <= b THEN a ELSE b

RECURSIVE SumSeq(_)
SumSeq(s) == IF s = << >> THEN 0 ELSE Head(s) + SumSeq(Tail(s))

\* Math.round(a / b) for b > 0: round half up
RoundDiv(a, b) == (2 * a + b) \div (2 * b)

\* Array.prototype.sort with comparator (a, b) => key(a) - key(b): ascending,
\* stable.  Works on [key, val] pairs; x goes behind every element whose key
\* is not greater.
RECURSIVE InsertKeyed(_, _)
InsertKeyed(sorted, x) ==
    IF sorted = << >> THEN << x >>
    ELSE IF Head(sorted).key > x.key THEN << x >> \o sorted
    ELSE << Head(sorted) >> \o InsertKeyed(Tail(sorted), x)

RECURSIVE SortKeyed(_)
SortKeyed(s) ==
    IF s = << >> THEN << >>
    ELSE InsertKeyed(SortKeyed(SubSeq(s, 1, Len(s) - 1)), s[Len(s)])

\* s sorted by the keys given in parallel: keys[k] is the key of s[k]
SortByKey(s, keys) ==
    LET keyed  == [k \in 1..Len(s) |-> [key |-> keys[k], val |-> s[k]]]
        sorted == SortKeyed(keyed)
    IN [k \in 1..Len(s) |-> sorted[k].val]

----------------------------------------------------------------------------
(* Calibration engine *)

\* Math.exp(-(delta * delta) / (2 * sigma * sigma)) with sigma = 2, in 1e-6,
\* indexed by delta in tenths (entry delta10 + 1)
BellTable ==
  << 1000000, 998751, 995012, 988813, 980199, 969233, 955997, 940588, 923116, 903707,
     882497, 859633, 835270, 809572, 782705, 754840, 726149, 696805, 666977, 636832,
     606531, 576229, 546074, 516206, 486752, 457833, 429557, 402021, 375311, 349501,
     324652, 300818, 278037, 256340, 235746, 216265, 197899, 180640, 164474, 149382,
     135335, 122303, 110251, 99137, 88922, 79560, 71005, 63213, 56135, 49725,
     43937, 38726, 34047, 29860, 26121, 22794, 19841, 17227, 14921, 12891,
     11109, 9550, 8189, 7004, 5976, 5086, 4318, 3656, 3089, 2603,
     2187, 1834, 1534, 1280, 1065, 884, 732, 604, 498, 409,
     335, 274, 224, 182, 148, 120, 97, 78, 63, 50,
     40, 32, 25, 20, 16, 13, 10, 8, 6, 5 >>

\* The profile returned for fewer than 3 feedback entries
DefaultProfile(n) ==
    [ skillLevel |-> 50, idealDifficulty |-> 52, confidence |-> 0,
      dataPoints |-> n, energyByDay |-> << >>, avgTasksPerDay |-> 0,
      avgHoursPerDay |-> 0, currentStreak |-> 0 ]

\* variant: an even count takes the upper middle value, not the mean of two
RawSkill_upperMiddle(feedback) ==
    LET diffsOf(r) == LET Is(f) == f.difficultyRating = r
                          sel == SelectSeq(feedback, Is)
                      IN [k \in 1..Len(sel) |-> sel[k].taskDifficulty]
        jr   == SortByKey(diffsOf("just_right"), diffsOf("just_right"))
        easy == diffsOf("too_easy")
        hard == diffsOf("too_hard")
        easyAvg == IF Len(easy) > 0 THEN [num |-> SumSeq(easy), den |-> Len(easy)]
                                    ELSE [num |-> 3, den |-> 1]
        hardAvg == IF Len(hard) > 0 THEN [num |-> SumSeq(hard), den |-> Len(hard)]
                                    ELSE [num |-> 7, den |-> 1]
    IN IF Len(jr) > 0
       THEN [num |-> jr[(Len(jr) \div 2) + 1], den |-> 1]
       ELSE [num |-> easyAvg.num * hardAvg.den + hardAvg.num * easyAvg.den,
             den |-> 2 * easyAvg.den * hardAvg.den]

\* skillLevel before clamping, as a fraction [num, den]
RawSkill(feedback) ==
    LET diffsOf(r) == LET Is(f) == f.difficultyRating = r
                          sel == SelectSeq(feedback, Is)
                      IN [k \in 1..Len(sel) |-> sel[k].taskDifficulty]
        jr   == SortByKey(diffsOf("just_right"), diffsOf("just_right"))
        easy == diffsOf("too_easy")
        hard == diffsOf("too_hard")
        mid  == Len(jr) \div 2
        easyAvg == IF Len(easy) > 0 THEN [num |-> SumSeq(easy), den |-> Len(easy)]
                                    ELSE [num |-> 3, den |-> 1]
        hardAvg == IF Len(hard) > 0 THEN [num |-> SumSeq(hard), den |-> Len(hard)]
                                    ELSE [num |-> 7, den |-> 1]
    IN IF Len(jr) > 0
       THEN IF Len(jr) % 2 = 0
            THEN [num |-> jr[mid] + jr[mid + 1], den |-> 2]
            ELSE [num |-> jr[mid + 1], den |-> 1]
       ELSE [num |-> easyAvg.num * hardAvg.den + hardAvg.num * easyAvg.den,
             den |-> 2 * easyAvg.den * hardAvg.den]

\* variant: Math.min(10, skillLevel) only
ClampSkill_upperOnly(s) ==
    IF s.num > 10 * s.den THEN [num |-> 10, den |-> 1] ELSE s

\* Math.max(1, Math.min(10, skillLevel))
ClampSkill(s) ==
    IF s.num > 10 * s.den THEN [num |-> 10, den |-> 1]
    ELSE IF s.num < s.den THEN [num |-> 1, den |-> 1]
    ELSE s

\* new Date(date).getDay(): dates are day numbers, day 0 is a Sunday
WeekdayOf(date) == date % 7

\* energyByDayAvg: weekday -> mean energyRating in tenths, for the weekdays
\* that have a rated summary
EnergyByDay(plans) ==
    LET Rated(p) == p.energyRating # 0
        rated == SelectSeq(plans, Rated)
        days  == { WeekdayOf(rated[k].date) : k \in 1..Len(rated) }
        OnDay(d) == LET Is(p) == WeekdayOf(p.date) = d
                        sel == SelectSeq(rated, Is)
                    IN [k \in 1..Len(sel) |-> sel[k].energyRating]
    IN [d \in days |-> RoundDiv(10 * SumSeq(OnDay(d)), Len(OnDay(d)))]

AvgHoursPerDay(plans) ==
    LET Has(p) == p.hoursRequested # 0
        sel == SelectSeq(plans, Has)
        hrs == [k \in 1..Len(sel) |-> sel[k].hoursRequested]
    IN IF Len(sel) > 0 THEN RoundDiv(10 * SumSeq(hrs), Len(sel)) ELSE 0

\* variant: counting goes on after a gap of more than 1.5 days
RECURSIVE StreakFrom_resumes(_, _, _)
StreakFrom_resumes(sortedPlans, k, streak) ==
    IF k > Len(sortedPlans) THEN streak
    ELSE IF 2 * (sortedPlans[k - 1].date - sortedPlans[k].date) <= 3
         THEN StreakFrom_resumes(sortedPlans, k + 1, streak + 1)
         ELSE StreakFrom_resumes(sortedPlans, k + 1, streak)

\* the streak loop over sortedPlans from index k (1-based k = code's i + 1)
RECURSIVE StreakFrom(_, _, _)
StreakFrom(sortedPlans, k, streak) ==
    IF k > Len(sortedPlans) THEN streak
    ELSE IF 2 * (sortedPlans[k - 1].date - sortedPlans[k].date) <= 3
         THEN StreakFrom(sortedPlans, k + 1, streak + 1)
         ELSE streak

\* variant: the newest completed review is not counted
CurrentStreak_startsAtZero(plans) ==
    LET Done(p) == p.eodReviewCompleted
        done == SelectSeq(plans, Done)
        sortedPlans == SortByKey(done, [k \in 1..Len(done) |-> 0 - done[k].date])
    IN IF Len(sortedPlans) > 0 THEN StreakFrom(sortedPlans, 2, 0) ELSE 0

\* lines 408-426
CurrentStreak(plans) ==
    LET Done(p) == p.eodReviewCompleted
        done == SelectSeq(plans, Done)
        sortedPlans == SortByKey(done, [k \in 1..Len(done) |-> 0 - done[k].date])
    IN IF Len(sortedPlans) > 0 THEN StreakFrom(sortedPlans, 2, 1) ELSE 0

\* variant: the threshold one entry lower
MinFeedback_two(n) == n < 2

\* line 333: too few entries for any estimate
MinFeedback(n) == n < 3

\* variant: confidence is not capped at 1
computeCalibrationProfile_confidenceUncapped(feedback, plans) ==
    IF MinFeedback(Len(feedback)) THEN DefaultProfile(Len(feedback))
    ELSE LET skill == ClampSkill(RawSkill(feedback))
         IN [ skillLevel      |-> RoundDiv(10 * skill.num, skill.den),
              idealDifficulty |-> Min(100, RoundDiv(260 * skill.num, 25 * skill.den)),
              confidence      |-> RoundDiv(100 * Len(feedback), 33),
              dataPoints      |-> Len(feedback),
              energyByDay     |-> EnergyByDay(plans),
              avgTasksPerDay  |-> 0,
              avgHoursPerDay  |-> AvgHoursPerDay(plans),
              currentStreak   |-> CurrentStreak(plans) ]

\* variant: idealDifficulty is taken from the rounded skillLevel
computeCalibrationProfile_idealFromRounded(feedback, plans) ==
    IF MinFeedback(Len(feedback)) THEN DefaultProfile(Len(feedback))
    ELSE LET skill == ClampSkill(RawSkill(feedback))
             rounded == RoundDiv(10 * skill.num, skill.den)
         IN [ skillLevel      |-> rounded,
              idealDifficulty |-> Min(100, RoundDiv(104 * rounded, 100)),
              confidence      |-> Min(100, RoundDiv(100 * Len(feedback), 33)),
              dataPoints      |-> Len(feedback),
              energyByDay     |-> EnergyByDay(plans),
              avgTasksPerDay  |-> 0,
              avgHoursPerDay  |-> AvgHoursPerDay(plans),
              currentStreak   |-> CurrentStreak(plans) ]

computeCalibrationProfile(feedback, plans) ==
    IF MinFeedback(Len(feedback)) THEN DefaultProfile(Len(feedback))
    ELSE LET skill == ClampSkill(RawSkill(feedback))
         IN [ skillLevel      |-> RoundDiv(10 * skill.num, skill.den),
              idealDifficulty |-> Min(100, RoundDiv(260 * skill.num, 25 * skill.den)),
              confidence      |-> Min(100, RoundDiv(100 * Len(feedback), 33)),
              dataPoints      |-> Len(feedback),
              energyByDay     |-> EnergyByDay(plans),
              avgTasksPerDay  |-> 0,
              avgHoursPerDay  |-> AvgHoursPerDay(plans),
              currentStreak   |-> CurrentStreak(plans) ]

\* max(0, 1 - |difficulty - 5| * 0.15) in 1e-6
DefaultChallenge(difficulty) == Max(0, 1000000 - Abs(difficulty - 5) * 150000)

\* variant: the two weights exchanged
calculateChallengeSkillScore_weightsSwapped(taskDifficulty, prof) ==
    LET delta10 == Abs(10 * taskDifficulty - prof.idealDifficulty)
        score == IF delta10 + 1 <= Len(BellTable) THEN BellTable[delta10 + 1] ELSE 0
    IN score * (100 - prof.confidence) + DefaultChallenge(taskDifficulty) * prof.confidence

\* result in 1e-8: bell * confidence + default * (1 - confidence)
calculateChallengeSkillScore(taskDifficulty, prof) ==
    LET delta10 == Abs(10 * taskDifficulty - prof.idealDifficulty)
        score == IF delta10 + 1 <= Len(BellTable) THEN BellTable[delta10 + 1] ELSE 0
    IN score * prof.confidence + DefaultChallenge(taskDifficulty) * (100 - prof.confidence)

----------------------------------------------------------------------------
(* Time helpers: strings are sequences of one-character strings; a number  *)
(* is a non-negative integer or NaN                                        *)

Digits == << "0", "1", "2", "3", "4", "5", "6", "7", "8", "9" >>

IsDigit(c) == \E d \in 1..10 : Digits[d] = c

DigitVal(c) == CHOOSE d \in 0..9 : Digits[d + 1] = c

\* the value NaN of a number; every number the engine computes from clock
\* times is otherwise >= 0
NaN == -1

\* a + b of two numbers
Plus(a, b) == IF a = NaN \/ b = NaN THEN NaN ELSE a + b

\* value of a string of decimal digits (0 for the empty string)
RECURSIVE NumberOf(_)
NumberOf(s) ==
    IF s = << >> THEN 0
    ELSE 10 * NumberOf(SubSeq(s, 1, Len(s) - 1)) + DigitVal(s[Len(s)])

\* Number(s) for strings of digits, ":" and letters: a string with a
\* character that is not a digit is NaN
ToNumber(s) == IF \A k \in 1..Len(s) : IsDigit(s[k]) THEN NumberOf(s) ELSE NaN

\* s.split(":")
RECURSIVE SplitColon(_)
SplitColon(s) ==
    IF \A k \in 1..Len(s) : s[k] # ":" THEN << s >>
    ELSE LET colon == CHOOSE k \in 1..Len(s) :
                         s[k] = ":" /\ \A j \in 1..(k - 1) : s[j] # ":"
         IN << SubSeq(s, 1, colon - 1) >> \o SplitColon(SubSeq(s, colon + 1, Len(s)))

\* const [hours, minutes] = timeStr.split(":").map(Number); a missing
\* second part is undefined, and hours * 60 + undefined is NaN
parseTime(timeStr) ==
    LET parts   == SplitColon(timeStr)
        hours   == ToNumber(parts[1])
        minutes == IF Len(parts) >= 2 THEN ToNumber(parts[2]) ELSE NaN
    IN IF hours = NaN \/ minutes = NaN THEN NaN ELSE hours * 60 + minutes

\* n.toString().padStart(2, "0") for 0 <= n <= 99
Pad2(n) == << Digits[(n \div 10) + 1], Digits[(n % 10) + 1] >>

\* variant: the hour is not taken modulo 24
formatTime_noWrap(minutes) ==
    IF minutes = NaN THEN << "N", "a", "N", ":", "N", "a", "N" >>
    ELSE Pad2(minutes \div 60) \o << ":" >> \o Pad2(minutes % 60)

\* Math.floor(NaN / 60) % 24 and NaN % 60 are NaN, printed "NaN"
formatTime(minutes) ==
    IF minutes = NaN THEN << "N", "a", "N", ":", "N", "a", "N" >>
    ELSE LET h == (minutes \div 60) % 24
             m == minutes % 60
         IN Pad2(h) \o << ":" >> \o Pad2(m)

----------------------------------------------------------------------------
(* Schedule generator *)

Statuses == { "pending", "scheduled", "in_progress", "completed", "skipped" }

\* variant: the status filter left out
IsEligible_anyStatus(t) == t.status \in Statuses

\* the filter of engine.ts line 66 (and of autoDecideBlockDuration)
IsEligible(t) == t.status = "pending" \/ t.status = "scheduled"

\* score in 1e-8; calibration is << >> (null / absent) or << profile >>.
\* The double computation can separate two scores that are equal as exact
\* numbers by one unit in the last place; the task rows of TaskPool have
\* pairwise different exact scores, so the order of the model is the order
\* of the doubles.
calculateTaskScore(task, calibration) ==
    LET priorityScore == task.priority * 20000000
        urgencyScore  == 50000000
        challengeScore ==
            IF calibration # << >> /\ calibration[1].confidence > 0
            THEN calculateChallengeSkillScore(task.difficulty, calibration[1])
            ELSE 100 * DefaultChallenge(task.difficulty)
    IN (priorityScore * 3) \div 10 + (urgencyScore * 4) \div 10
       + (challengeScore * 2) \div 10
       + (100000000 - task.sortOrder * 1000000) \div 10

\* variant: the sort puts the lowest score first
ScoreAndSort_ascending(tasks, calibration) ==
    LET eligible == SelectSeq(tasks, IsEligible)
        scored   == [k \in 1..Len(eligible) |->
                        [task |-> eligible[k],
                         score |-> calculateTaskScore(eligible[k], calibration)]]
    IN SortByKey(scored, [k \in 1..Len(scored) |-> scored[k].score])

\* lines 65-71: filter, score, sort by score descending (stable)
ScoreAndSort(tasks, calibration) ==
    LET eligible == SelectSeq(tasks, IsEligible)
        scored   == [k \in 1..Len(eligible) |->
                        [task |-> eligible[k],
                         score |-> calculateTaskScore(eligible[k], calibration)]]
    IN SortByKey(scored, [k \in 1..Len(scored) |-> 0 - scored[k].score])

\* lines 55-62
EffectiveBlocks(cfg) ==
    LET totalMinutes     == cfg.hoursRequested * 60
        blockWithBreak   == cfg.blockDurationMinutes + cfg.breakDurationMinutes
        bufferMinutes    == totalMinutes \div 10
        effectiveMinutes == totalMinutes - bufferMinutes
    IN Max(1, effectiveMinutes \div blockWithBreak)

\* variant: a candidate that would fill the block exactly is turned away
Fits_strictly(filled, estimatedMinutes, blockDurationMinutes) ==
    filled + estimatedMinutes < blockDurationMinutes

\* variant: the room is tested before the candidate is added
Fits_beforeAdding(filled, estimatedMinutes, blockDurationMinutes) ==
    filled <= blockDurationMinutes

\* line 98: the candidate still fits into the block
Fits(filled, estimatedMinutes, blockDurationMinutes) ==
    filled + estimatedMinutes <= blockDurationMinutes

\* variant: the selection stops only at a block filled to the last minute
FullEnough_wholeBlock(filled, blockDurationMinutes) ==
    filled >= blockDurationMinutes

\* line 102: blockMinutesFilled >= blockDurationMinutes * 0.8
FullEnough(filled, blockDurationMinutes) ==
    10 * filled >= 8 * blockDurationMinutes

\* variant: the first candidate that does not fit ends the selection
RECURSIVE SelectLoop_stopsAtMisfit(_, _, _, _, _)
SelectLoop_stopsAtMisfit(candidateTasks, j, selected, filled, dur) ==
    IF j > Len(candidateTasks)
    THEN [selectedForBlock |-> selected, blockMinutesFilled |-> filled]
    ELSE LET candidate == candidateTasks[j]
             est == candidate.task.estimatedMinutes
         IN IF Fits(filled, est, dur)
            THEN IF FullEnough(filled + est, dur)
                 THEN [selectedForBlock |-> Append(selected, candidate),
                       blockMinutesFilled |-> filled + est]
                 ELSE SelectLoop_stopsAtMisfit(candidateTasks, j + 1,
                                               Append(selected, candidate),
                                               filled + est, dur)
            ELSE [selectedForBlock |-> selected, blockMinutesFilled |-> filled]

\* lines 96-104: the selection loop from candidate j on
RECURSIVE SelectLoop(_, _, _, _, _)
SelectLoop(candidateTasks, j, selected, filled, dur) ==
    IF j > Len(candidateTasks)
    THEN [selectedForBlock |-> selected, blockMinutesFilled |-> filled]
    ELSE LET candidate == candidateTasks[j]
             est == candidate.task.estimatedMinutes
         IN IF Fits(filled, est, dur)
            THEN IF FullEnough(filled + est, dur)
                 THEN [selectedForBlock |-> Append(selected, candidate),
                       blockMinutesFilled |-> filled + est]
                 ELSE SelectLoop(candidateTasks, j + 1, Append(selected, candidate),
                                 filled + est, dur)
            ELSE SelectLoop(candidateTasks, j + 1, selected, filled, dur)

\* lines 88-90
CandidateTasks(remaining, isLastBlock) ==
    IF isLastBlock
    THEN SortByKey(remaining, [k \in 1..Len(remaining) |-> remaining[k].task.difficulty])
    ELSE remaining

\* variant: the block keeps the order of selection
LowerTheHurdle_keepsScoreOrder(selected) == selected

\* line 111: selectedForBlock.sort by difficulty ascending
LowerTheHurdle(selected) ==
    SortByKey(selected, [k \in 1..Len(selected) |-> selected[k].task.difficulty])

\* lines 114-119
BlockTasks(selected) ==
    [idx \in 1..Len(selected) |-> [task |-> selected[idx].task, sortOrder |-> idx - 1]]

\* line 80
BlockType(isLastBlock) == IF isLastBlock THEN "shallow_work" ELSE "deep_work"

\* variant: blockNumber is the loop index itself
MakeBlock_zeroBased(idx, time, dur, blockType, blockTasks, filled) ==
    [ blockNumber  |-> idx,
      startTime    |-> formatTime(time),
      endTime      |-> formatTime(Plus(time, dur)),
      blockType    |-> blockType,
      tasks        |-> blockTasks,
      totalMinutes |-> filled ]

\* lines 127-134
MakeBlock(idx, time, dur, blockType, blockTasks, filled) ==
    [ blockNumber  |-> idx + 1,
      startTime    |-> formatTime(time),
      endTime      |-> formatTime(Plus(time, dur)),
      blockType    |-> blockType,
      tasks        |-> blockTasks,
      totalMinutes |-> filled ]

\* variant: the loop runs for one index more
LoopCond_oneMore(st, cfg) ==
    st.i <= EffectiveBlocks(cfg) /\ Len(st.remainingTasks) > 0

\* line 78: the loop condition
LoopCond(st, cfg) == st.i < EffectiveBlocks(cfg) /\ Len(st.remainingTasks) > 0

\* variant: the tasks selected for a block stay in remainingTasks
LoopBody_keepsSelected(st, cfg) ==
    LET dur         == cfg.blockDurationMinutes
        isLastBlock == st.i = EffectiveBlocks(cfg) - 1
        sel         == SelectLoop(CandidateTasks(st.remainingTasks, isLastBlock),
                                  1, << >>, 0, dur)
        blockTasks  == BlockTasks(LowerTheHurdle(sel.selectedForBlock))
    IN IF Len(blockTasks) = 0
       THEN [st EXCEPT !.i = st.i + 1]
       ELSE [ i              |-> st.i + 1,
              remainingTasks |-> st.remainingTasks,
              currentTime    |-> Plus(Plus(st.currentTime, dur),
                                     cfg.breakDurationMinutes),
              blocks         |-> Append(st.blocks,
                                   MakeBlock(st.i, st.currentTime, dur,
                                             BlockType(isLastBlock), blockTasks,
                                             sel.blockMinutesFilled)) ]

\* lines 79-137: one iteration of the block loop on the local state
\* st = [i, remainingTasks, currentTime, blocks]
LoopBody(st, cfg) ==
    LET dur         == cfg.blockDurationMinutes
        isLastBlock == st.i = EffectiveBlocks(cfg) - 1
        sel         == SelectLoop(CandidateTasks(st.remainingTasks, isLastBlock),
                                  1, << >>, 0, dur)
        selectedIds == { sel.selectedForBlock[k].task.id :
                            k \in 1..Len(sel.selectedForBlock) }
        NotSelected(s) == s.task.id \notin selectedIds
        remaining   == SelectSeq(st.remainingTasks, NotSelected)
        blockTasks  == BlockTasks(LowerTheHurdle(sel.selectedForBlock))
    IN IF Len(blockTasks) = 0
       THEN [st EXCEPT !.i = st.i + 1, !.remainingTasks = remaining]
       ELSE [ i              |-> st.i + 1,
              remainingTasks |-> remaining,
              currentTime    |-> Plus(Plus(st.currentTime, dur),
                                     cfg.breakDurationMinutes),
              blocks         |-> Append(st.blocks,
                                   MakeBlock(st.i, st.currentTime, dur,
                                             BlockType(isLastBlock), blockTasks,
                                             sel.blockMinutesFilled)) ]

RECURSIVE RunLoop(_, _)
RunLoop(st, cfg) == IF LoopCond(st, cfg) THEN RunLoop(LoopBody(st, cfg), cfg) ELSE st.blocks

\* lines 74-76: the local state on entering the loop
LoopEntry(tasks, cfg) ==
    [ i              |-> 0,
      remainingTasks |-> ScoreAndSort(tasks, cfg.calibration),
      currentTime    |-> parseTime(cfg.startTime),
      blocks         |-> << >> ]

\* the whole function, as a value
generateDailySchedule(tasks, cfg) ==
    IF Len(tasks) = 0 THEN << >> ELSE RunLoop(LoopEntry(tasks, cfg), cfg)

----------------------------------------------------------------------------
(* Block duration *)

\* lines 229-236: there are active tasks and their mean estimatedMinutes is
\* below limit
AvgEstimateBelow(tasks, limit) ==
    LET active == SelectSeq(tasks, IsEligible)
        est    == [k \in 1..Len(active) |-> active[k].estimatedMinutes]
    IN Len(active) > 0 /\ SumSeq(est) < limit * Len(active)

\* variant: the medium branch takes avgHoursPerDay = 0 for a short day
AutoLadder_zeroHoursShort(calibration, tasks, today) ==
    LET cal       == calibration[1]
        avgHours  == cal.avgHoursPerDay
        hasEnergy == today \in DOMAIN cal.energyByDay /\ cal.energyByDay[today] # 0
    IN IF cal.confidence < 30 THEN 90
       ELSE IF cal.confidence < 70
            THEN IF avgHours < 30 THEN 60
                 ELSE IF avgHours >= 30 /\ avgHours <= 50 THEN 90
                 ELSE 120
       ELSE IF AvgEstimateBelow(tasks, 25) THEN 60
       ELSE IF AvgEstimateBelow(tasks, 50) THEN 90
       ELSE IF hasEnergy /\ cal.energyByDay[today] <= 20 THEN 60
       ELSE IF hasEnergy /\ cal.energyByDay[today] <= 30 THEN 90
       ELSE IF avgHours > 0 /\ avgHours < 40 THEN 90
       ELSE 120

\* variant: today's energy is looked at before the task mean
AutoLadder_energyFirst(calibration, tasks, today) ==
    LET cal       == calibration[1]
        avgHours  == cal.avgHoursPerDay
        hasEnergy == today \in DOMAIN cal.energyByDay /\ cal.energyByDay[today] # 0
    IN IF cal.confidence < 30 THEN 90
       ELSE IF cal.confidence < 70
            THEN IF avgHours > 0 /\ avgHours < 30 THEN 60
                 ELSE IF avgHours >= 30 /\ avgHours <= 50 THEN 90
                 ELSE 120
       ELSE IF hasEnergy /\ cal.energyByDay[today] <= 20 THEN 60
       ELSE IF hasEnergy /\ cal.energyByDay[today] <= 30 THEN 90
       ELSE IF AvgEstimateBelow(tasks, 25) THEN 60
       ELSE IF AvgEstimateBelow(tasks, 50) THEN 90
       ELSE IF avgHours > 0 /\ avgHours < 40 THEN 90
       ELSE 120

\* lines 209-252: the ladder below the no-data check
AutoLadder(calibration, tasks, today) ==
    LET cal       == calibration[1]
        avgHours  == cal.avgHoursPerDay
        hasEnergy == today \in DOMAIN cal.energyByDay /\ cal.energyByDay[today] # 0
    IN IF cal.confidence < 30 THEN 90
       ELSE IF cal.confidence < 70
            THEN IF avgHours > 0 /\ avgHours < 30 THEN 60
                 ELSE IF avgHours >= 30 /\ avgHours <= 50 THEN 90
                 ELSE 120
       ELSE IF AvgEstimateBelow(tasks, 25) THEN 60
       ELSE IF AvgEstimateBelow(tasks, 50) THEN 90
       ELSE IF hasEnergy /\ cal.energyByDay[today] <= 20 THEN 60
       ELSE IF hasEnergy /\ cal.energyByDay[today] <= 30 THEN 90
       ELSE IF avgHours > 0 /\ avgHours < 40 THEN 90
       ELSE 120

\* variant: only a missing profile counts as no data
autoDecideBlockDuration_noZeroCheck(calibration, tasks, today) ==
    IF calibration = << >> THEN 120 ELSE AutoLadder(calibration, tasks, today)

\* calibration is << >> or << profile >>; today is new Date().getDay()
autoDecideBlockDuration(calibration, tasks, today) ==
    IF calibration = << >> \/ calibration[1].confidence = 0 THEN 120
    ELSE AutoLadder(calibration, tasks, today)

\* variant: mode "custom" falls back to 120 the way the default branch does
resolveBlockDuration_customFallsBack(mode, custom, calibration, tasks, today) ==
    CASE mode = "60"     -> 60
      [] mode = "90"     -> 90
      [] mode = "120"    -> 120
      [] mode = "auto"   -> autoDecideBlockDuration(calibration, tasks, today)
      [] OTHER           -> IF custom # 0 THEN custom ELSE 120

\* lines 265-272; customDuration || 120 is 120 for customDuration 0
resolveBlockDuration(mode, custom, calibration, tasks, today) ==
    CASE mode = "60"     -> 60
      [] mode = "90"     -> 90
      [] mode = "120"    -> 120
      [] mode = "custom" -> custom
      [] mode = "auto"   -> autoDecideBlockDuration(calibration, tasks, today)
      [] OTHER           -> IF custom # 0 THEN custom ELSE 120

----------------------------------------------------------------------------
(* Inputs of the model *)

Task(est, diff, prio, status, order) ==
    [ estimatedMinutes |-> est, difficulty |-> diff, priority |-> prio,
      status |-> status, sortOrder |-> order ]

\* task rows without their id; a list gives row k the id k
TaskPool ==
    { Task(30, 2, 3, "pending", 0),
      Task(60, 5, 5, "pending", 1),
      Task(90, 8, 1, "scheduled", 2),
      Task(150, 9, 5, "pending", 0),
      Task(45, 7, 3, "completed", 0),
      Task(30, 4, 2, "in_progress", 1),
      Task(15, 6, 3, "skipped", 3) }

WithIds(rows) ==
    [k \in 1..Len(rows) |->
        [ id |-> k, estimatedMinutes |-> rows[k].estimatedMinutes,
          difficulty |-> rows[k].difficulty, priority |-> rows[k].priority,
          status |-> rows[k].status, sortOrder |-> rows[k].sortOrder ]]

TaskLists == { WithIds(rows) : rows \in UNION { [1..n -> TaskPool] : n \in 0..MaxTasks } }

\* task lists beyond the enumerated ones: five 30-minute tasks of priority 3
\* and difficulties 2, 4, 5, 7, 9; a 90-minute task with two 15-minute
\* tasks; and lists with two tasks that differ in priority only, the lower
\* priority stored first
FiveTasks ==
    WithIds([k \in 1..5 |-> Task(30, << 2, 4, 5, 7, 9 >>[k], 3, "pending", 0)])

ScenarioTaskLists ==
    { FiveTasks,
      WithIds(<< Task(90, 8, 5, "pending", 0), Task(15, 3, 4, "pending", 1),
                 Task(15, 6, 2, "pending", 2) >>),
      WithIds(<< Task(60, 5, 2, "pending", 0), Task(60, 5, 4, "scheduled", 0),
                 Task(30, 2, 3, "pending", 0) >>),
      WithIds(<< Task(90, 8, 1, "pending", 2), Task(90, 8, 5, "pending", 2),
                 Task(30, 4, 2, "pending", 1) >>) }

Feedback(rating, diff) == [ difficultyRating |-> rating, taskDifficulty |-> diff ]

FeedbackPool ==
    { Feedback("just_right", 3), Feedback("just_right", 8), Feedback("too_easy", 2),
      Feedback("too_hard", 9), Feedback("too_hard", 6), Feedback("null", 5) }

FeedbackLists == UNION { [1..n -> FeedbackPool] : n \in 0..MaxFeedback }

\* feedback histories beyond the enumerated ones: ten just_right entries,
\* and entries whose taskDifficulty lies outside 1-10 (the column is a plain
\* integer and nothing checks a difficulty when a task is stored)
TenJustRight ==
    [k \in 1..10 |-> Feedback("just_right", << 3, 4, 4, 5, 5, 5, 6, 6, 7, 8 >>[k])]

ScenarioFeedback ==
    { TenJustRight,
      << Feedback("just_right", 12), Feedback("just_right", 12),
         Feedback("too_easy", 2) >>,
      << Feedback("too_easy", 0), Feedback("too_easy", 0), Feedback("too_hard", 1) >> }

Summary(date, hours, energy, eod) ==
    [ date |-> date, hoursRequested |-> hours, energyRating |-> energy,
      eodReviewCompleted |-> eod ]

SummaryPool ==
    { Summary(20, 4, 2, TRUE), Summary(19, 0, 5, TRUE),
      Summary(17, 2, 0, TRUE), Summary(18, 6, 3, FALSE) }

SummaryLists == UNION { [1..n -> SummaryPool] : n \in 0..MaxSummaries }

\* calibration values handed to the scheduler: absent, the default profile of
\* a user with two feedback entries, a zero-confidence profile with other
\* numbers, and the profile of a user with three entries
ProfilePool ==
    { << >>,
      << computeCalibrationProfile(
            << Feedback("just_right", 8), Feedback("too_hard", 9) >>, << >>) >>,
      << [ DefaultProfile(0) EXCEPT !.skillLevel = 80, !.idealDifficulty = 83 ] >>,
      << computeCalibrationProfile(
            << Feedback("just_right", 8), Feedback("just_right", 8),
               Feedback("too_hard", 9) >>,
            << Summary(20, 4, 2, TRUE) >>) >> }

Requests ==
    { [ startTime |-> << "0", "9", ":", "0", "0" >>, hoursRequested |-> 2 ],
      [ startTime |-> << "2", "3", ":", "3", "0" >>, hoursRequested |-> 5 ],
      [ startTime |-> << "0", "9", ":", "0", "0" >>, hoursRequested |-> 8 ] }

Modes == { "60", "120", "auto" }

Weekdays == 0..6

----------------------------------------------------------------------------
(* The planning request: computeCalibrationProfile, resolveBlockDuration,  *)
(* then generateDailySchedule                                              *)

\* no single function is under evaluation
NoCall == [ fn |-> "none" ]

NoConfig(r, cal) ==
    [ startTime |-> r.startTime,
      hoursRequested |-> r.hoursRequested,
      blockDurationMinutes |-> 0,
      breakDurationMinutes |-> 15,
      calibration |-> cal ]

\* a direct call of the engine with any task list and any calibration value
InitPlan ==
    /\ pendingTasks \in TaskLists \cup ScenarioTaskLists
    /\ blockDurationMode \in Modes
    /\ customDuration = 120
    /\ \E r \in Requests, cal \in ProfilePool : config = NoConfig(r, cal)
    /\ pc = "resolve"
    /\ i = 0
    /\ remainingTasks = << >>
    /\ currentTime = 0
    /\ blocks = << >>
    /\ feedbackEntries = << >>
    /\ dailyPlanData = << >>
    /\ profile = << >>
    /\ call = NoCall
    /\ result = << >>

\* task lists as getAllPendingTasks returns them: pending rows, by priority
\* descending, then sortOrder ascending
StoredTaskLists ==
    { WithIds(<< Task(60, 5, 5, "pending", 1), Task(30, 2, 3, "pending", 0) >>),
      WithIds(<< Task(150, 9, 5, "pending", 0), Task(30, 2, 3, "pending", 0),
                 Task(90, 8, 1, "pending", 2) >>) }

\* a plan request of the route: the calibration is computed from feedback
\* and daily summaries, any lists computeCalibrationProfile accepts
InitCal ==
    /\ pendingTasks \in StoredTaskLists
    /\ blockDurationMode = "auto"
    /\ customDuration = 120
    /\ config = NoConfig([ startTime |-> << "0", "9", ":", "0", "0" >>,
                           hoursRequested |-> 5 ], << >>)
    /\ pc = "calibrate"
    /\ i = 0
    /\ remainingTasks = << >>
    /\ currentTime = 0
    /\ blocks = << >>
    /\ feedbackEntries \in FeedbackLists \cup ScenarioFeedback
    /\ dailyPlanData \in SummaryLists
    /\ profile = << >>
    /\ call = NoCall
    /\ result = << >>

\* start times that do not read HH:MM: "9am", "0900", "9:05"
MalformedTimes ==
    { << "9", "a", "m" >>, << "0", "9", "0", "0" >>, << "9", ":", "0", "5" >> }

\* a plan request whose startTime parameter is such a string (the route
\* hands the query parameter to the engine as it came)
InitMalformed ==
    /\ pendingTasks \in StoredTaskLists
    /\ blockDurationMode \in { "60", "120" }
    /\ customDuration = 120
    /\ \E t \in MalformedTimes :
          config = NoConfig([ startTime |-> t, hoursRequested |-> 5 ], << >>)
    /\ pc = "resolve"
    /\ i = 0
    /\ remainingTasks = << >>
    /\ currentTime = 0
    /\ blocks = << >>
    /\ feedbackEntries = << >>
    /\ dailyPlanData = << >>
    /\ profile = << >>
    /\ call = NoCall
    /\ result = << >>

Init == InitPlan \/ InitCal \/ InitMalformed

\* the local state of generateDailySchedule as a record
Locals == [ i |-> i, remainingTasks |-> remainingTasks,
            currentTime |-> currentTime, blocks |-> blocks ]

SetLocals(st) ==
    /\ i' = st.i
    /\ remainingTasks' = st.remainingTasks
    /\ currentTime' = st.currentTime
    /\ blocks' = st.blocks

\* route.ts line 219: the profile is computed from the stored data
ComputeProfile ==
    /\ pc = "calibrate"
    /\ profile' = << computeCalibrationProfile(feedbackEntries, dailyPlanData) >>
    /\ pc' = "profiled"
    /\ UNCHANGED << schedVars, feedbackEntries, dailyPlanData, fnVars >>

\* route.ts lines 216-221: only a profile with confidence > 0 is passed on
LoadCalibration ==
    /\ pc = "profiled"
    /\ config' = [ config EXCEPT !.calibration =
                      IF profile[1].confidence > 0 THEN profile ELSE << >> ]
    /\ pc' = "resolve"
    /\ UNCHANGED << pendingTasks, blockDurationMode, customDuration, i,
                    remainingTasks, currentTime, blocks, calVars, fnVars >>

\* route.ts lines 223-224: the caller fixes blockDurationMinutes
ResolveDuration ==
    /\ pc = "resolve"
    /\ \E today \in Weekdays :
          config' = [ config EXCEPT !.blockDurationMinutes =
                        resolveBlockDuration(blockDurationMode, customDuration,
                                             config.calibration, pendingTasks, today) ]
    /\ pc' = "start"
    /\ UNCHANGED << pendingTasks, blockDurationMode, customDuration, i,
                    remainingTasks, currentTime, blocks, calVars, fnVars >>

\* variant: an empty day is answered with one empty block
EarlyReturn_placeholderBlock ==
    /\ pc = "start"
    /\ Len(pendingTasks) = 0
    /\ blocks' = << MakeBlock(0, parseTime(config.startTime),
                              config.blockDurationMinutes, BlockType(TRUE), << >>, 0) >>
    /\ pc' = "done"
    /\ UNCHANGED << pendingTasks, blockDurationMode, customDuration, config, i,
                    remainingTasks, currentTime, calVars, fnVars >>

\* line 52
EarlyReturn ==
    /\ pc = "start"
    /\ Len(pendingTasks) = 0
    /\ blocks' = << >>
    /\ pc' = "done"
    /\ UNCHANGED << pendingTasks, blockDurationMode, customDuration, config, i,
                    remainingTasks, currentTime, calVars, fnVars >>

\* variant: the score sort runs on the caller's list itself
Enter_sortsInPlace ==
    /\ pc = "start"
    /\ Len(pendingTasks) # 0
    /\ SetLocals(LoopEntry(pendingTasks, config))
    /\ pendingTasks' =
          SortByKey(pendingTasks,
                    [k \in 1..Len(pendingTasks) |->
                        0 - calculateTaskScore(pendingTasks[k], config.calibration)])
    /\ pc' = "loop"
    /\ UNCHANGED << blockDurationMode, customDuration, config, calVars, fnVars >>

\* lines 54-76; filter and map build new arrays, the caller's list is not
\* touched by the sort
Enter ==
    /\ pc = "start"
    /\ Len(pendingTasks) # 0
    /\ SetLocals(LoopEntry(pendingTasks, config))
    /\ pc' = "loop"
    /\ UNCHANGED << pendingTasks, blockDurationMode, customDuration, config, calVars, fnVars >>

\* lines 78-138: one iteration
Iterate ==
    /\ pc = "loop"
    /\ LoopCond(Locals, config)
    /\ SetLocals(LoopBody(Locals, config))
    /\ pc' = "loop"
    /\ UNCHANGED << pendingTasks, blockDurationMode, customDuration, config, calVars, fnVars >>

\* line 140
Return ==
    /\ pc = "loop"
    /\ ~LoopCond(Locals, config)
    /\ pc' = "done"
    /\ UNCHANGED << schedVars, calVars, fnVars >>

Next ==
    \/ ComputeProfile
    \/ LoadCalibration
    \/ ResolveDuration
    \/ EarlyReturn
    \/ Enter
    \/ Iterate
    \/ Return

Spec == Init /\ [][Next]_vars

----------------------------------------------------------------------------
(* Single functions of the engine, each applied to arguments of its own    *)

\* task difficulties, 1-10
Difficulties == 1..10

\* profiles for the challenge score: ideal difficulties 1.0 .. 10.0, with
\* confidence 0, 0.09, 0.5 and 1
ScoreProfiles ==
    { [ DefaultProfile(0) EXCEPT !.idealDifficulty = ideal, !.confidence = conf ] :
        ideal \in { 10, 30, 52, 80, 83, 100 }, conf \in { 0, 9, 50, 100 } }

ScoreCalls ==
    { [ fn |-> "calculateChallengeSkillScore", taskDifficulty |-> d, profile |-> prof ] :
        d \in Difficulties, prof \in ScoreProfiles }

\* the column block_duration_mode is free text
AllModes == { "60", "90", "120", "custom", "auto", "", "45" }

ResolveCalls ==
    { [ fn |-> "resolveBlockDuration", mode |-> mode, customDuration |-> custom,
        calibration |-> cal, pendingTasks |-> tasks, today |-> today ] :
        mode \in AllModes, custom \in { 0, 45, 120 }, cal \in ProfilePool,
        tasks \in StoredTaskLists \cup { << >> }, today \in Weekdays }

\* profiles for mode "auto": confidence on both sides of 0.3 and 0.7,
\* avgHoursPerDay on both sides of 3, 4 and 5, energy 1-5 for some weekdays
AutoProfiles ==
    { [ DefaultProfile(0) EXCEPT !.confidence = c, !.avgHoursPerDay = h,
                                 !.energyByDay = e ] :
        c \in { 0, 20, 29, 30, 50, 69, 70, 100 },
        h \in { 0, 25, 30, 39, 40, 50, 55 },
        e \in { << >>, (1 :> 20), (1 :> 30), (1 :> 35), (2 :> 15) @@ (4 :> 25) } }

\* task lists whose pending/scheduled mean is below 25, below 50, or not, with
\* and without tasks of other statuses
AutoTaskLists ==
    { << >>,
      WithIds(<< Task(20, 2, 3, "pending", 0), Task(20, 4, 3, "scheduled", 1) >>),
      WithIds(<< Task(25, 2, 3, "pending", 0) >>),
      WithIds(<< Task(30, 2, 3, "pending", 0), Task(60, 5, 3, "scheduled", 1) >>),
      WithIds(<< Task(50, 5, 3, "pending", 0) >>),
      WithIds(<< Task(60, 5, 3, "pending", 0), Task(10, 2, 3, "completed", 1) >>),
      WithIds(<< Task(30, 2, 3, "pending", 0), Task(10, 2, 3, "skipped", 1) >>),
      WithIds(<< Task(20, 2, 3, "scheduled", 0), Task(150, 9, 3, "in_progress", 1) >>),
      WithIds(<< Task(10, 2, 3, "completed", 0), Task(10, 2, 3, "skipped", 1) >>) }

AutoCalls ==
    { [ fn |-> "resolveBlockDuration", mode |-> "auto", customDuration |-> 0,
        calibration |-> cal, pendingTasks |-> tasks, today |-> today ] :
        cal \in { << >> } \cup { << p >> : p \in AutoProfiles },
        tasks \in AutoTaskLists, today \in Weekdays }

\* feedback histories for single calls of computeCalibrationProfile: the
\* enumerated ones, n equal entries for every n up to MaxEntries, and
\* entries whose taskDifficulty lies outside 1-10
CountedFeedback ==
    { [k \in 1..n |-> Feedback(r, 5)] : r \in { "null", "just_right" }, n \in 0..MaxEntries }

OutOfRangePool ==
    { Feedback("just_right", -3), Feedback("just_right", 12), Feedback("too_easy", 15),
      Feedback("too_hard", -4), Feedback("too_easy", 0), Feedback("null", 40) }

ProfileFeedback ==
    FeedbackLists \cup ScenarioFeedback \cup CountedFeedback \cup [1..3 -> OutOfRangePool]

\* daily summaries of different dates (the column date is unique), up to
\* MaxStreakDays of them
StreakPool ==
    { Summary(20, 4, 2, TRUE), Summary(19, 0, 5, TRUE), Summary(17, 2, 0, TRUE),
      Summary(16, 3, 4, TRUE), Summary(18, 6, 3, FALSE) }

StreakSummaries ==
    { p \in UNION { [1..n -> StreakPool] : n \in 0..MaxStreakDays } :
        \A j, k \in 1..Len(p) : j # k => p[j].date # p[k].date }

ProfileCalls ==
    { [ fn |-> "computeCalibrationProfile", feedbackEntries |-> f, dailyPlanData |-> p ] :
        f \in ProfileFeedback, p \in { << >>, << Summary(20, 4, 2, TRUE) >> } }
    \cup
    { [ fn |-> "computeCalibrationProfile", feedbackEntries |-> f, dailyPlanData |-> p ] :
        f \in { [k \in 1..2 |-> Feedback("just_right", 8)], TenJustRight },
        p \in StreakSummaries }

TimeCalls == { [ fn |-> "formatTime", minutes |-> m ] : m \in 0..MaxMinutes }

FnCalls == ScoreCalls \cup ResolveCalls \cup AutoCalls \cup TimeCalls \cup ProfileCalls

\* the scheduler and the calibration are at rest
Idle ==
    /\ pendingTasks = << >>
    /\ blockDurationMode = "120"
    /\ customDuration = 120
    /\ config = NoConfig([ startTime |-> << "0", "9", ":", "0", "0" >>,
                           hoursRequested |-> 0 ], << >>)
    /\ pc = "idle"
    /\ i = 0
    /\ remainingTasks = << >>
    /\ currentTime = 0
    /\ blocks = << >>
    /\ feedbackEntries = << >>
    /\ dailyPlanData = << >>
    /\ profile = << >>

FnInit == Idle /\ call \in FnCalls /\ result = << >>

ApplyChallengeSkillScore ==
    /\ call.fn = "calculateChallengeSkillScore"
    /\ result = << >>
    /\ result' = << calculateChallengeSkillScore(call.taskDifficulty, call.profile) >>
    /\ UNCHANGED << schedVars, pc, calVars, call >>

ApplyResolveBlockDuration ==
    /\ call.fn = "resolveBlockDuration"
    /\ result = << >>
    /\ result' = << resolveBlockDuration(call.mode, call.customDuration,
                                         call.calibration, call.pendingTasks,
                                         call.today) >>
    /\ UNCHANGED << schedVars, pc, calVars, call >>

ApplyFormatTime ==
    /\ call.fn = "formatTime"
    /\ result = << >>
    /\ result' = << formatTime(call.minutes) >>
    /\ UNCHANGED << schedVars, pc, calVars, call >>

\* the formatted time is parsed back
ApplyParseTime ==
    /\ call.fn = "formatTime"
    /\ Len(result) = 1
    /\ result' = Append(result, parseTime(result[1]))
    /\ UNCHANGED << schedVars, pc, calVars, call >>

ApplyComputeCalibrationProfile ==
    /\ call.fn = "computeCalibrationProfile"
    /\ result = << >>
    /\ result' = << computeCalibrationProfile(call.feedbackEntries, call.dailyPlanData) >>
    /\ UNCHANGED << schedVars, pc, calVars, call >>

FnNext ==
    \/ ApplyComputeCalibrationProfile
    \/ ApplyChallengeSkillScore
    \/ ApplyResolveBlockDuration
    \/ ApplyFormatTime
    \/ ApplyParseTime

FnSpec == FnInit /\ [][FnNext]_vars

----------------------------------------------------------------------------
(* Properties of the schedule generator *)

\* s reads HH:MM with HH in 00..23 and MM in 00..59
IsClockTime(s) ==
    /\ Len(s) = 5
    /\ s[3] = ":"
    /\ \A k \in { 1, 2, 4, 5 } : IsDigit(s[k])
    /\ NumberOf(SubSeq(s, 1, 2)) <= 23
    /\ NumberOf(SubSeq(s, 4, 5)) <= 59

\* the estimatedMinutes of a block's tasks, in list order
BlockEstimates(b) == [k \in 1..Len(b.tasks) |-> b.tasks[k].task.estimatedMinutes]

BlockSet == { blocks[p] : p \in 1..Len(blocks) }

\* the score the engine gave a task in this call
ScoreOf(t) == calculateTaskScore(t, config.calibration)

\* ids of the tasks of the block at position p
IdsOf(p) == { blocks[p].tasks[k].task.id : k \in 1..Len(blocks[p].tasks) }

\* remainingTasks as it was when the block at position p was filled: the
\* scored tasks without those of the blocks before it
PoolOf(p) ==
    LET placed == UNION { IdsOf(q) : q \in 1..(p - 1) }
        Left(s) == s.task.id \notin placed
    IN SelectSeq(ScoreAndSort(pendingTasks, config.calibration), Left)

\* the candidate order of the block at position p: score descending, for
\* the last block of the day difficulty ascending
CandidatesOf(p) ==
    CandidateTasks(PoolOf(p), blocks[p].blockNumber = EffectiveBlocks(config))

\* ranks in the candidate order cand of the candidates with an id in ids
ChosenRanks(cand, ids) == { k \in 1..Len(cand) : cand[k].task.id \in ids }

\* minutes taken by the candidates of ranks chosen that come before rank k
FilledBefore(cand, chosen, k) ==
    SumSeq([j \in 1..(k - 1) |->
               IF j \in chosen THEN cand[j].task.estimatedMinutes ELSE 0])

\* C1: in every block emitted, the estimatedMinutes of its tasks sum to at
\* most config.blockDurationMinutes.
C1_BlockWithinDuration ==
    \A b \in BlockSet : SumSeq(BlockEstimates(b)) <= config.blockDurationMinutes

\* C1 witness: a finished plan in which the first block was left below the
\* 80% mark because the task that opens the second block did not fit.
C1_Witness ==
    /\ pc = "done"
    /\ Len(blocks) >= 2
    /\ ~FullEnough(blocks[1].totalMinutes, config.blockDurationMinutes)
    /\ \E k \in 1..Len(blocks[2].tasks) :
          blocks[1].totalMinutes + blocks[2].tasks[k].task.estimatedMinutes
             > config.blockDurationMinutes

\* C2: in every block emitted the tasks carry sortOrder 0..n-1 in list order
\* and their difficulties do not decrease along the list.
C2_EasiestFirst ==
    \A b \in BlockSet :
       /\ \A k \in 1..Len(b.tasks) : b.tasks[k].sortOrder = k - 1
       /\ \A k \in 1..(Len(b.tasks) - 1) :
             b.tasks[k].task.difficulty <= b.tasks[k + 1].task.difficulty

\* C2 witness: a deep-work block whose first task scored lower than its
\* second, so the block order is not the order of selection.
C2_Witness ==
    \E b \in BlockSet :
       /\ b.blockType = "deep_work"
       /\ Len(b.tasks) >= 2
       /\ ScoreOf(b.tasks[1].task) < ScoreOf(b.tasks[2].task)
       /\ b.tasks[1].task.difficulty < b.tasks[2].task.difficulty

\* C3: in every non-empty result the last block is shallow_work and all the
\* blocks before it are deep_work.
C3_LastBlockShallow ==
    (pc = "done" /\ Len(blocks) > 0) =>
       /\ blocks[Len(blocks)].blockType = "shallow_work"
       /\ \A p \in 1..(Len(blocks) - 1) : blocks[p].blockType = "deep_work"

\* C4: the blocks are numbered 1, 2, ..., k without gaps (the block at list
\* position p has blockNumber p), and once an iteration has emitted nothing
\* no remaining task fits a block, so no later iteration emits one.
C4_NumberedWithoutGaps ==
    /\ \A p \in 1..Len(blocks) : blocks[p].blockNumber = p
    /\ (pc = "loop" /\ Len(blocks) < i) =>
          \A k \in 1..Len(remainingTasks) :
             remainingTasks[k].task.estimatedMinutes > config.blockDurationMinutes

\* C4 witness: a finished plan with at least one block and at least one
\* iteration that emitted nothing.
C4_Witness == pc = "done" /\ Len(blocks) >= 1 /\ i > Len(blocks)

\* C5: an empty task list yields the empty plan, whatever the config.
C5_EmptyInEmptyOut == (pc = "done" /\ Len(pendingTasks) = 0) => blocks = << >>

\* C5 witness: a finished call with no tasks, a calibration profile and a
\* request of several hours.
C5_Witness ==
    /\ pc = "done"
    /\ Len(pendingTasks) = 0
    /\ config.calibration # << >>
    /\ config.hoursRequested > 2

\* C6: every task placed in a block has status pending or scheduled, and a
\* list without such a task yields the empty plan.
C6_OnlyEligibleScheduled ==
    /\ \A b \in BlockSet : \A k \in 1..Len(b.tasks) :
          b.tasks[k].task.status \in { "pending", "scheduled" }
    /\ (pc = "done" /\ \A k \in 1..Len(pendingTasks) :
                          pendingTasks[k].status \in { "in_progress", "completed", "skipped" })
          => blocks = << >>

\* C6 witness: a finished, non-empty plan for a list that also holds a task
\* of another status, short enough to fit the room left in the first block.
C6_Witness ==
    /\ pc = "done"
    /\ Len(blocks) > 0
    /\ \E k \in 1..Len(pendingTasks) :
          /\ pendingTasks[k].status \in { "in_progress", "completed", "skipped" }
          /\ blocks[1].totalMinutes + pendingTasks[k].estimatedMinutes
                <= config.blockDurationMinutes
          /\ ~FullEnough(blocks[1].totalMinutes, config.blockDurationMinutes)

\* C8: no step of generateDailySchedule or computeCalibrationProfile changes
\* the caller's task list, feedback list or daily-summary list.
C8_InputsUnchanged ==
    [][ /\ pendingTasks' = pendingTasks
        /\ feedbackEntries' = feedbackEntries
        /\ dailyPlanData' = dailyPlanData ]_vars

\* C8 witness: a finished plan for a task list that is not in score order,
\* so the engine's sort had something to move.
C8_Witness ==
    /\ pc = "done"
    /\ Len(blocks) > 0
    /\ \E k \in 1..(Len(pendingTasks) - 1) :
          /\ IsEligible(pendingTasks[k]) /\ IsEligible(pendingTasks[k + 1])
          /\ ScoreOf(pendingTasks[k]) < ScoreOf(pendingTasks[k + 1])

\* C17: a call emits at most effectiveBlocks blocks, where effectiveBlocks =
\* max(1, floor((hoursRequested*60 - floor(hoursRequested*60*0.1)) /
\* (blockDurationMinutes + breakDurationMinutes))), and every emitted block
\* holds at least one task; hoursRequested 2, block 120, break 15 and five
\* 30-minute tasks give exactly one block.
C17_AtMostEffectiveBlocks ==
    LET total == config.hoursRequested * 60
        effectiveBlocks ==
            Max(1, (total - total \div 10)
                      \div (config.blockDurationMinutes + config.breakDurationMinutes))
    IN /\ pc \in { "loop", "done" } => Len(blocks) <= effectiveBlocks
       /\ \A b \in BlockSet : Len(b.tasks) >= 1
       /\ (pc = "done" /\ pendingTasks = FiveTasks /\ config.hoursRequested = 2
              /\ config.blockDurationMinutes = 120 /\ config.breakDurationMinutes = 15)
             => Len(blocks) = 1

\* C17 witness: the five-task day of 2 hours has ended with one block while
\* a task that would fit a block is still unscheduled.
C17_Witness ==
    /\ pc = "done"
    /\ pendingTasks = FiveTasks
    /\ config.hoursRequested = 2
    /\ config.blockDurationMinutes = 120
    /\ Len(blocks) = 1
    /\ \E k \in 1..Len(remainingTasks) :
          remainingTasks[k].task.estimatedMinutes <= config.blockDurationMinutes

\* C18: block times follow a running cursor: the first block starts at
\* config.startTime; every block ends the full blockDurationMinutes after
\* its start, whatever its totalMinutes; every later block starts
\* breakDurationMinutes after the end of the block before it; the times are
\* shown modulo 24 hours, while the cursor itself only grows (by block plus
\* break for every block emitted).
C18_TimesFollowCursor ==
    LET dur    == config.blockDurationMinutes
        break  == config.breakDurationMinutes
        day    == 1440
    IN pc \in { "loop", "done" } =>
          /\ Len(blocks) > 0 => blocks[1].startTime = config.startTime
          /\ \A p \in 1..Len(blocks) :
                /\ IsClockTime(blocks[p].startTime)
                /\ IsClockTime(blocks[p].endTime)
                /\ parseTime(blocks[p].endTime)
                      = (parseTime(blocks[p].startTime) + dur) % day
          /\ \A p \in 2..Len(blocks) :
                parseTime(blocks[p].startTime)
                   = (parseTime(blocks[p - 1].endTime) + break) % day
          /\ Len(pendingTasks) > 0 =>
                currentTime = parseTime(config.startTime) + Len(blocks) * (dur + break)

\* C19 as claimed: the tasks chosen for a block are a prefix of the block's
\* candidate order; no task is placed in a block while a candidate ranked
\* before it is left out.
C19_ChosenIsPrefix ==
    \A p \in 1..Len(blocks) :
       ChosenRanks(CandidatesOf(p), IdsOf(p)) = 1..Len(blocks[p].tasks)

\* C19 amended: the tasks chosen for a block are taken in the block's
\* candidate order, and a candidate that does not fit is passed over: a task
\* is placed in a block while a candidate ranked before it is left out only
\* if that candidate's estimatedMinutes exceeded the minutes still free in
\* the block when it was reached.
C19_LeftOutOnlyIfTooLong ==
    \A p \in 1..Len(blocks) :
       LET cand   == CandidatesOf(p)
           chosen == ChosenRanks(cand, IdsOf(p))
       IN \A k \in 1..Len(cand) :
             (k \notin chosen /\ \E j \in chosen : j > k) =>
                FilledBefore(cand, chosen, k) + cand[k].task.estimatedMinutes
                   > config.blockDurationMinutes

\* C19 witness: a block holding a candidate ranked after one that was left
\* out, although the one left out alone would fit a block.
C19_Witness ==
    \E p \in 1..Len(blocks) :
       LET cand   == CandidatesOf(p)
           chosen == ChosenRanks(cand, IdsOf(p))
       IN \E k \in 1..Len(cand) :
             /\ k \notin chosen
             /\ \E j \in chosen : j > k
             /\ cand[k].task.estimatedMinutes <= config.blockDurationMinutes

\* C20: no task is added to a block that is at least 80% full: in every
\* block the minutes filled before its last-selected task was added are
\* less than 0.8 * blockDurationMinutes.
C20_NothingAddedPastThreshold ==
    \A p \in 1..Len(blocks) :
       LET cand   == CandidatesOf(p)
           chosen == ChosenRanks(cand, IdsOf(p))
       IN \A k \in chosen :
             (\A j \in chosen : j <= k) =>
                10 * FilledBefore(cand, chosen, k) < 8 * config.blockDurationMinutes

\* C20 witness: a block of two or more tasks filled to 80% or more, with a
\* candidate ranked after its last task that would still have fitted.
C20_Witness ==
    \E p \in 1..Len(blocks) :
       LET cand   == CandidatesOf(p)
           chosen == ChosenRanks(cand, IdsOf(p))
       IN /\ Len(blocks[p].tasks) >= 2
          /\ 10 * blocks[p].totalMinutes >= 8 * config.blockDurationMinutes
          /\ \E k \in 1..Len(cand) :
                /\ \A j \in chosen : j < k
                /\ blocks[p].totalMinutes + cand[k].task.estimatedMinutes
                      <= config.blockDurationMinutes

\* C14: a call with at least one eligible task and a startTime that does not
\* read HH:MM is refused: it returns no blocks, and so no block whose
\* startTime or endTime is not a clock time.
C14_MalformedStartRejected ==
    (pc = "done" /\ ~IsClockTime(config.startTime)
        /\ \E k \in 1..Len(pendingTasks) : IsEligible(pendingTasks[k])) =>
       blocks = << >>

----------------------------------------------------------------------------
(* Properties of the calibration engine *)

\* C9: with fewer than 3 feedback entries the profile is skillLevel 5,
\* idealDifficulty 5.2, confidence 0, dataPoints = number of entries, no
\* energyByDay entry, avgHoursPerDay 0 and currentStreak 0.
C9_DefaultProfileBelowThree ==
    (profile # << >> /\ Len(feedbackEntries) < 3) =>
       /\ profile[1].skillLevel = 50
       /\ profile[1].idealDifficulty = 52
       /\ profile[1].confidence = 0
       /\ profile[1].dataPoints = Len(feedbackEntries)
       /\ DOMAIN profile[1].energyByDay = { }
       /\ profile[1].avgHoursPerDay = 0
       /\ profile[1].currentStreak = 0

\* C9 witness: a profile computed from two rated entries of difficulty other
\* than 5, with a summary that has hours, an energy rating and a completed
\* review.
C9_Witness ==
    /\ profile # << >>
    /\ Len(feedbackEntries) = 2
    /\ \A k \in 1..2 : /\ feedbackEntries[k].difficultyRating = "just_right"
                       /\ feedbackEntries[k].taskDifficulty = 8
    /\ \E k \in 1..Len(dailyPlanData) :
          /\ dailyPlanData[k].eodReviewCompleted
          /\ dailyPlanData[k].hoursRequested # 0
          /\ dailyPlanData[k].energyRating # 0

\* C10: a profile with confidence 0 gives the plan of no calibration, auto
\* mode gives 120 for both, and a user with fewer than 3 feedback entries is
\* planned for without calibration.
C10_ZeroConfidenceIsUnpersonalized ==
    /\ (pc = "done" /\ config.calibration # << >>
           /\ config.calibration[1].confidence = 0) =>
          /\ blocks = generateDailySchedule(pendingTasks,
                                            [ config EXCEPT !.calibration = << >> ])
          /\ \A today \in Weekdays :
                /\ resolveBlockDuration("auto", customDuration, config.calibration,
                                        pendingTasks, today) = 120
                /\ resolveBlockDuration("auto", customDuration, << >>,
                                        pendingTasks, today) = 120
          /\ blockDurationMode = "auto" => config.blockDurationMinutes = 120
    /\ (pc = "done" /\ profile # << >> /\ Len(feedbackEntries) < 3) =>
          /\ blocks = generateDailySchedule(pendingTasks,
                                            [ config EXCEPT !.calibration = << >> ])
          /\ config.blockDurationMinutes = 120

\* C10 witness: a finished, non-empty auto-mode plan made with a
\* zero-confidence profile whose ideal difficulty is not the default one.
C10_Witness ==
    /\ pc = "done"
    /\ Len(blocks) > 0
    /\ blockDurationMode = "auto"
    /\ config.calibration # << >>
    /\ config.calibration[1].confidence = 0
    /\ config.calibration[1].idealDifficulty = 83

\* the taskDifficulty values of the feedback entries rated r
DifficultiesRated(r) ==
    LET Is(f) == f.difficultyRating = r
        sel == SelectSeq(feedbackEntries, Is)
    IN [k \in 1..Len(sel) |-> sel[k].taskDifficulty]

\* the value of rank r (1 = smallest) among the values of s
ValueAtRank(s, r) ==
    CHOOSE v \in { s[k] : k \in DOMAIN s } :
       /\ Cardinality({ k \in DOMAIN s : s[k] < v }) < r
       /\ r <= Cardinality({ k \in DOMAIN s : s[k] <= v })

\* C15: for 3 or more entries skillLevel is the median of the difficulties
\* rated just_right (mean of the two middle values for an even count) if
\* there is one, otherwise the average of the mean too_easy difficulty (3 if
\* none) and the mean too_hard difficulty (7 if none); clamped to [1,10] and
\* rounded to one decimal.  Ten just_right entries of difficulties
\* 3,4,4,5,5,5,6,6,7,8 give skillLevel 5 and idealDifficulty 5.2.
C15_SkillLevelIsMedian ==
    (profile # << >> /\ Len(feedbackEntries) >= 3) =>
       LET jr   == DifficultiesRated("just_right")
           easy == DifficultiesRated("too_easy")
           hard == DifficultiesRated("too_hard")
           eNum == IF Len(easy) > 0 THEN SumSeq(easy) ELSE 3
           eDen == IF Len(easy) > 0 THEN Len(easy) ELSE 1
           hNum == IF Len(hard) > 0 THEN SumSeq(hard) ELSE 7
           hDen == IF Len(hard) > 0 THEN Len(hard) ELSE 1
           num0 == IF Len(jr) > 0
                   THEN ValueAtRank(jr, (Len(jr) + 1) \div 2)
                           + ValueAtRank(jr, (Len(jr) + 2) \div 2)
                   ELSE eNum * hDen + hNum * eDen
           den0 == IF Len(jr) > 0 THEN 2 ELSE 2 * eDen * hDen
           num  == IF num0 > 10 * den0 THEN 10 * den0
                   ELSE IF num0 < den0 THEN den0 ELSE num0
           t    == profile[1].skillLevel
       IN /\ 2 * den0 * t - den0 <= 20 * num
          /\ 20 * num < 2 * den0 * t + den0
          /\ feedbackEntries = TenJustRight =>
                t = 50 /\ profile[1].idealDifficulty = 52

\* C15 witness: a profile from two just_right entries of different
\* difficulty and one other entry, so the median is the mean of two values.
C15_Witness ==
    /\ profile # << >>
    /\ Len(feedbackEntries) = 3
    /\ Len(DifficultiesRated("just_right")) = 2
    /\ DifficultiesRated("just_right")[1] # DifficultiesRated("just_right")[2]
    /\ profile[1].skillLevel = 55

\* C16 as claimed: for every input, currentStreak >= 1 if some summary has a
\* completed end-of-day review and currentStreak = 0 if none has.
C16_StreakForEveryInput ==
    profile # << >> =>
       IF \E k \in 1..Len(dailyPlanData) : dailyPlanData[k].eodReviewCompleted
       THEN profile[1].currentStreak >= 1
       ELSE profile[1].currentStreak = 0

\* C16 amended: for 3 or more feedback entries currentStreak >= 1 if some
\* summary has a completed end-of-day review and 0 if none has; for fewer
\* than 3 feedback entries currentStreak is 0 whatever the summaries.
C16_StreakWithEnoughFeedback ==
    profile # << >> =>
       IF Len(feedbackEntries) >= 3
             /\ \E k \in 1..Len(dailyPlanData) : dailyPlanData[k].eodReviewCompleted
       THEN profile[1].currentStreak >= 1
       ELSE profile[1].currentStreak = 0

\* C16 witness: a profile from three feedback entries and two summaries, of
\* which exactly one has a completed review.
C16_Witness ==
    /\ profile # << >>
    /\ Len(feedbackEntries) >= 3
    /\ Len(dailyPlanData) = 2
    /\ dailyPlanData[1].eodReviewCompleted # dailyPlanData[2].eodReviewCompleted
    /\ profile[1].currentStreak = 1

----------------------------------------------------------------------------
(* Properties of single functions *)

\* C11: for every difficulty 1..10 and every profile with confidence in
\* [0,1] the challenge score lies in [0,1]; it is the confidence-weighted mix
\* of the bell term (1 when the difficulty equals idealDifficulty, otherwise
\* strictly between 0 and 1) and the default term max(0, 1 - |d-5|*0.15); it
\* is the default term at confidence 0 and the bell term at confidence 1.
C11_ScoreIsConfidenceMix ==
    (call.fn = "calculateChallengeSkillScore" /\ result # << >>) =>
       LET d       == call.taskDifficulty
           conf    == call.profile.confidence
           delta10 == Abs(10 * d - call.profile.idealDifficulty)
           bell    == BellTable[delta10 + 1]
           default == Max(0, 1000000 - Abs(d - 5) * 150000)
       IN /\ 0 <= result[1] /\ result[1] <= 100000000
          /\ delta10 = 0 => bell = 1000000
          /\ delta10 # 0 => 0 < bell /\ bell < 1000000
          /\ result[1] = bell * conf + default * (100 - conf)
          /\ 100 * Min(bell, default) <= result[1]
          /\ result[1] <= 100 * Max(bell, default)
          /\ conf = 0 => result[1] = 100 * default
          /\ conf = 100 => result[1] = 100 * bell

\* C11 witness: a score computed at confidence 1 for a task whose difficulty
\* is the ideal difficulty, where the default term is below 1.
C11_Witness ==
    /\ call.fn = "calculateChallengeSkillScore"
    /\ result = << 100000000 >>
    /\ call.profile.confidence = 100
    /\ 10 * call.taskDifficulty = call.profile.idealDifficulty
    /\ call.taskDifficulty # 5

\* C12: resolveBlockDuration gives 60, 90, 120 for the modes "60", "90",
\* "120" whatever the other arguments; customDuration itself for "custom",
\* also when that is 0; the result of autoDecideBlockDuration for "auto";
\* and for any other mode customDuration if it is not 0, else 120.
C12_ModeDispatch ==
    (call.fn = "resolveBlockDuration" /\ result # << >>) =>
       /\ call.mode = "60" => result[1] = 60
       /\ call.mode = "90" => result[1] = 90
       /\ call.mode = "120" => result[1] = 120
       /\ call.mode = "custom" => result[1] = call.customDuration
       /\ call.mode = "auto" =>
             result[1] = autoDecideBlockDuration(call.calibration, call.pendingTasks,
                                                 call.today)
       /\ call.mode \notin { "60", "90", "120", "custom", "auto" } =>
             result[1] = IF call.customDuration # 0 THEN call.customDuration ELSE 120

\* C12 witness: mode "custom" has returned a customDuration of 0, for a
\* non-empty task list and a profile.
C12_Witness ==
    /\ call.fn = "resolveBlockDuration"
    /\ call.mode = "custom"
    /\ call.customDuration = 0
    /\ call.calibration # << >>
    /\ Len(call.pendingTasks) > 0
    /\ result = << 0 >>

\* C13: for every number m >= 0 of minutes formatTime(m) reads HH:MM with a
\* two-digit hour 00..23 and a two-digit minute 00..59, and
\* parseTime(formatTime(m)) is m modulo 1440.
C13_FormatParseRoundTrip ==
    (call.fn = "formatTime") =>
       /\ Len(result) >= 1 => IsClockTime(result[1])
       /\ Len(result) = 2 => result[2] = call.minutes % 1440

\* C13 witness: a time of more than a day, with an hour and a minute below
\* 10, has been formatted and parsed back.
C13_Witness ==
    /\ call.fn = "formatTime"
    /\ call.minutes > 1440
    /\ Len(result) = 2
    /\ result[1][1] = "0" /\ result[1][4] = "0"
    /\ result[2] # call.minutes

\* a profile has been computed by a single call
Profiled == call.fn = "computeCalibrationProfile" /\ result # << >>

\* C21 as claimed: the returned idealDifficulty is min(10, returned
\* skillLevel * 1.04) rounded to one decimal, for every feedback input.
C21_IdealFromReturnedSkill ==
    Profiled =>
       LET t     == result[1].skillLevel
           ideal == result[1].idealDifficulty
       IN IF 104 * t >= 10000 THEN ideal = 100
          ELSE /\ 200 * ideal - 100 <= 208 * t
               /\ 208 * t < 200 * ideal + 100

\* C21 amended: the returned idealDifficulty is min(10, s * 1.04) rounded to
\* one decimal, where s is the skillLevel clamped to [1,10] before it is
\* rounded (5.2 for fewer than 3 entries); it is the value for the returned
\* skillLevel whenever s is a multiple of 0.1.
C21_IdealFromUnroundedSkill ==
    Profiled =>
       LET s     == IF Len(call.feedbackEntries) < 3 THEN [num |-> 5, den |-> 1]
                    ELSE ClampSkill(RawSkill(call.feedbackEntries))
           ideal == result[1].idealDifficulty
       IN /\ IF 104 * s.num >= 1000 * s.den THEN ideal = 100
             ELSE /\ (200 * ideal - 100) * s.den <= 2080 * s.num
                  /\ 2080 * s.num < (200 * ideal + 100) * s.den
          /\ (10 * s.num) % s.den = 0 => C21_IdealFromReturnedSkill

\* C21 witness: a profile from too_easy and too_hard entries only, whose
\* skillLevel 4.75 is returned as 4.8 with idealDifficulty 4.9.
C21_Witness ==
    /\ Profiled
    /\ Len(call.feedbackEntries) = 3
    /\ \A k \in 1..3 : call.feedbackEntries[k].difficultyRating
                            \in { "too_easy", "too_hard" }
    /\ result[1].skillLevel = 48
    /\ result[1].idealDifficulty = 49

\* C22: for n >= 3 feedback entries of any rating the returned confidence is
\* min(1, n/33) rounded to two decimals and dataPoints is n; confidence is
\* positive, does not decrease from n-1 to n entries, is below 1 for n < 33
\* and 1 for n >= 33, and is 0.3 for n = 10.
C22_ConfidenceFromCount ==
    (Profiled /\ Len(call.feedbackEntries) >= 3) =>
       LET n    == Len(call.feedbackEntries)
           conf == result[1].confidence
           less == computeCalibrationProfile(SubSeq(call.feedbackEntries, 1, n - 1),
                                             call.dailyPlanData)
       IN /\ result[1].dataPoints = n
          /\ IF n >= 33 THEN conf = 100
             ELSE /\ 66 * conf - 33 <= 200 * n
                  /\ 200 * n < 66 * conf + 33
                  /\ conf < 100
          /\ conf > 0
          /\ n >= 4 => less.confidence <= conf
          /\ n = 10 => conf = 30

\* C22 witness: a profile from more than 33 entries, all without a rating.
C22_Witness ==
    /\ Profiled
    /\ Len(call.feedbackEntries) > 33
    /\ \A k \in 1..Len(call.feedbackEntries) :
          call.feedbackEntries[k].difficultyRating = "null"
    /\ result[1].confidence = 100

\* C23: with at least 3 feedback entries currentStreak counts, among the
\* summaries with a completed review taken newest first, the newest one and
\* every one reached from it by steps of at most 1.5 days; a larger gap ends
\* the count for good, summaries without a completed review play no part,
\* and currentStreak never exceeds the number of completed reviews.
C23_StreakOfCompletedReviews ==
    (Profiled /\ Len(call.feedbackEntries) >= 3) =>
       LET plans    == call.dailyPlanData
           reviewed == { k \in 1..Len(plans) : plans[k].eodReviewCompleted }
           dates    == { plans[k].date : k \in reviewed }
           Older(e) == { d \in dates : d < e }
           Linked(e) == \E d \in Older(e) :
                           /\ \A x \in Older(e) : x <= d
                           /\ 2 * (e - d) <= 3
           counted  == { d \in dates :
                           \A e \in dates : (e > d) => Linked(e) }
           streak   == result[1].currentStreak
       IN /\ streak = Cardinality(counted)
          /\ streak <= Cardinality(reviewed)
          /\ (reviewed # {}) => streak >= 1

\* C23 witness: three completed reviews and one gap of more than 1.5 days
\* after the second, so that the streak is 2.
C23_Witness ==
    /\ Profiled
    /\ Len(call.feedbackEntries) >= 3
    /\ Len(call.dailyPlanData) = 3
    /\ \A k \in 1..3 : call.dailyPlanData[k].eodReviewCompleted
    /\ result[1].currentStreak = 2

\* C30: every returned profile has 1 <= skillLevel <= idealDifficulty <= 10
\* and 0 <= confidence <= 1, also for difficulties outside 1..10 and for
\* entries without a rating.
C30_ProfileInRange ==
    Profiled =>
       /\ 10 <= result[1].skillLevel
       /\ result[1].skillLevel <= result[1].idealDifficulty
       /\ result[1].idealDifficulty <= 100
       /\ 0 <= result[1].confidence
       /\ result[1].confidence <= 100

\* C30 witness: a profile computed (not the default one) from entries that
\* all have a difficulty below 1 or above 10, clamped up to skillLevel 1.
C30_Witness ==
    /\ Profiled
    /\ Len(call.feedbackEntries) >= 3
    /\ \A k \in 1..Len(call.feedbackEntries) :
          call.feedbackEntries[k].taskDifficulty \notin 1..10
    /\ \E k \in 1..Len(call.feedbackEntries) :
          call.feedbackEntries[k].taskDifficulty < 0
    /\ result[1].skillLevel = 10
    /\ result[1].idealDifficulty = 10

\* mode "auto" has been resolved by a single call
AutoResolved ==
    call.fn = "resolveBlockDuration" /\ call.mode = "auto" /\ result # << >>

C26_PlacedAtMostOnce ==
    /\ \A p \in 1..Len(blocks) :
          \A j, k \in 1..Len(blocks[p].tasks) :
             (j # k) => blocks[p].tasks[j].task.id # blocks[p].tasks[k].task.id
    /\ \A p, q \in 1..Len(blocks) :
          (p < q) =>
             \A j \in 1..Len(blocks[p].tasks), k \in 1..Len(blocks[q].tasks) :
                blocks[p].tasks[j].task.id # blocks[q].tasks[k].task.id
    /\ \A p \in 1..Len(blocks) :
          \A k \in 1..Len(blocks[p].tasks) :
             \E n \in 1..Len(pendingTasks) :
                /\ pendingTasks[n] = blocks[p].tasks[k].task
                /\ pendingTasks[n].status \in { "pending", "scheduled" }
    /\ (pc = "loop") =>
          \A p \in 1..Len(blocks) :
             \A k \in 1..Len(blocks[p].tasks), r \in 1..Len(remainingTasks) :
                remainingTasks[r].task.id # blocks[p].tasks[k].task.id

\* C26 witness: inside the loop, a block of two tasks has been emitted and
\* tasks are still left for the blocks to come.
C26_Witness ==
    /\ pc = "loop"
    /\ Len(blocks) >= 1
    /\ Len(blocks[1].tasks) >= 2
    /\ Len(remainingTasks) >= 1
    /\ LoopCond(Locals, config)

\* C27: every emitted block either holds at least 0.8 * blockDurationMinutes
\* or leaves behind only tasks that do not fit: every pending or scheduled
\* input task placed neither in it nor in a block before it has
\* estimatedMinutes greater than blockDurationMinutes minus the block's
\* totalMinutes.
C27_FilledOrNothingFits ==
    \A p \in 1..Len(blocks) :
       \/ 10 * blocks[p].totalMinutes >= 8 * config.blockDurationMinutes
       \/ \A n \in 1..Len(pendingTasks) :
             ( /\ pendingTasks[n].status \in { "pending", "scheduled" }
               /\ \A q \in 1..p : pendingTasks[n].id \notin IdsOf(q) )
             => pendingTasks[n].estimatedMinutes
                   > config.blockDurationMinutes - blocks[p].totalMinutes

\* C27 witness: a block below the 80% mark that holds a candidate ranked
\* after one that was passed over, while a task is left for later.
C27_Witness ==
    \E p \in 1..Len(blocks) :
       LET cand   == CandidatesOf(p)
           chosen == ChosenRanks(cand, IdsOf(p))
       IN /\ 10 * blocks[p].totalMinutes < 8 * config.blockDurationMinutes
          /\ \E k \in 1..Len(cand) : k \notin chosen /\ \E j \in chosen : j > k

\* C28: whenever the buffered budget (hoursRequested*60 minus a tenth of it,
\* rounded down) holds at least one block plus break, the last emitted block
\* ends no later than that budget after config.startTime; the single block
\* of a plan can end after startTime + hoursRequested only when
\* effectiveBlocks was clamped up to 1.
C28_EndsWithinBufferedBudget ==
    (pc \in { "loop", "done" } /\ Len(blocks) > 0) =>
       LET total   == config.hoursRequested * 60
           budget  == total - (total \div 10)
           dur     == config.blockDurationMinutes
           break   == config.breakDurationMinutes
           start   == parseTime(config.startTime)
           last    == blocks[Len(blocks)]
           elapsed == currentTime - break - start
       IN /\ (budget >= dur + break) =>
                /\ start # NaN
                /\ IsClockTime(last.endTime)
                /\ parseTime(last.endTime) = (start + elapsed) % 1440
                /\ elapsed <= budget
          /\ (start # NaN /\ elapsed > total) =>
                /\ Len(blocks) = 1
                /\ budget < dur + break

\* position of the block that holds the task of this id, 0 if none does
BlockOf(id) ==
    IF \E p \in 1..Len(blocks) : id \in IdsOf(p)
    THEN CHOOSE p \in 1..Len(blocks) : id \in IdsOf(p)
    ELSE 0

\* C29: of two eligible tasks with the same estimatedMinutes, difficulty and
\* sortOrder, the one with the higher priority is never in a later block
\* than the other and is never left out while the other is placed, with or
\* without a calibration profile and in the last block too.
C29_PriorityRespected ==
    \A a, b \in 1..Len(pendingTasks) :
       LET ta == pendingTasks[a]
           tb == pendingTasks[b]
       IN ( /\ ta.status \in { "pending", "scheduled" }
            /\ tb.status \in { "pending", "scheduled" }
            /\ ta.estimatedMinutes = tb.estimatedMinutes
            /\ ta.difficulty = tb.difficulty
            /\ ta.sortOrder = tb.sortOrder
            /\ ta.priority > tb.priority
            /\ BlockOf(tb.id) # 0 )
          => /\ BlockOf(ta.id) # 0
             /\ BlockOf(ta.id) <= BlockOf(tb.id)

\* C29 witness: a finished plan with a calibration profile whose last block
\* holds the higher-priority task of such a pair, stored after the other,
\* while the other is left out.
C29_Witness ==
    /\ pc = "done"
    /\ config.calibration # << >>
    /\ \E a, b \in 1..Len(pendingTasks) :
          /\ b < a
          /\ pendingTasks[a].estimatedMinutes = pendingTasks[b].estimatedMinutes
          /\ pendingTasks[a].difficulty = pendingTasks[b].difficulty
          /\ pendingTasks[a].sortOrder = pendingTasks[b].sortOrder
          /\ pendingTasks[a].priority > pendingTasks[b].priority
          /\ pendingTasks[b].status = "pending"
          /\ BlockOf(pendingTasks[a].id) # 0
          /\ blocks[BlockOf(pendingTasks[a].id)].blockNumber = EffectiveBlocks(config)
          /\ BlockOf(pendingTasks[b].id) = 0

\* C29 witness, second case: both tasks of such a pair are placed, the
\* higher priority in an earlier block.
C29_WitnessEarlierBlock ==
    \E a, b \in 1..Len(pendingTasks) :
       /\ pendingTasks[a].estimatedMinutes = pendingTasks[b].estimatedMinutes
       /\ pendingTasks[a].difficulty = pendingTasks[b].difficulty
       /\ pendingTasks[a].sortOrder = pendingTasks[b].sortOrder
       /\ pendingTasks[a].priority > pendingTasks[b].priority
       /\ BlockOf(pendingTasks[a].id) # 0
       /\ BlockOf(pendingTasks[a].id) < BlockOf(pendingTasks[b].id)

====
